---- MODULE Spec2Model ----
(***************************************************************************)
(* Model of egui_node_graph/src/graph_impls.rs: the Graph mutation and     *)
(* query API over three SlotMap arenas (nodes, inputs, outputs) and one    *)
(* SecondaryMap (connections, keyed by InputId, holding OutputId).         *)
(*                                                                         *)
(* A key is [idx, version]; a SlotMap slot is [version, value] where value *)
(* is <<>> (vacant) or <<record>>; occupied slots have an odd version.     *)
(* Fields the operations never read (label, user_data, kind, shown_inline) *)
(* are left out of the records.  A panic leaves the graph as the code had  *)
(* changed it up to the panicking expression, and is reported in last.res. *)
(***************************************************************************)
EXTENDS Integers, Sequences, FiniteSets, TLC

\* ---------------------------------------------------------------- bounds
MaxSlots == 2          \* slots per arena
MaxGen == 2            \* occupancies per slot (versions 1, 3, ...)
MaxSteps == 4          \* calls made on one graph

Names == {"x", "y"}
DataTypes == {"Int", "Float"}
\* the type a caller declares a parameter of a given name with, and the
\* value it stores with a type: a value of that type
TypeOf == [x |-> "Int", y |-> "Float"]
ValueOf == [Int |-> "0", Float |-> "0.0"]

MaxVersion == 2 * MaxGen - 1
Versions == {v \in 1..MaxVersion : v % 2 = 1}

Key(i, v) == [idx |-> i, version |-> v]
\* every identity a caller can hold: issued, stale, or never issued by this graph
Keys == {Key(i, v) : i \in 1..MaxSlots, v \in Versions}
NoKey == Key(0, 0)

\* ------------------------------------------------------- SlotMap (arena)
EmptySlotMap == [slots |-> <<>>, free |-> <<>>]

SmContains(sm, k) ==
    /\ k.idx \in 1..Len(sm.slots)
    /\ sm.slots[k.idx].version = k.version

\* get: Some(value) as <<value>>, None as <<>>
SmGet(sm, k) == IF SmContains(sm, k) THEN sm.slots[k.idx].value ELSE <<>>

\* (mutant) a reused slot keeps the version its last occupant had
SmNextKey_SameVersion(sm) ==
    IF sm.free # <<>>
    THEN Key(Head(sm.free), sm.slots[Head(sm.free)].version - 1)
    ELSE Key(Len(sm.slots) + 1, 1)

\* the key the next insert returns: the head of the free list with its
\* version made odd, else a fresh slot with version 1
SmNextKey(sm) ==
    IF sm.free # <<>>
    THEN Key(Head(sm.free), sm.slots[Head(sm.free)].version + 1)
    ELSE Key(Len(sm.slots) + 1, 1)

SmInsert(sm, val) ==
    LET k == SmNextKey(sm) IN
    IF sm.free # <<>>
    THEN [slots |-> [sm.slots EXCEPT ![k.idx] = [version |-> k.version, value |-> <<val>>]],
          free |-> Tail(sm.free)]
    ELSE [slots |-> Append(sm.slots, [version |-> k.version, value |-> <<val>>]),
          free |-> sm.free]

\* remove: a key that does not resolve removes nothing; the slot's version
\* becomes even (vacant) and the slot heads the free list
SmRemove(sm, k) ==
    IF SmContains(sm, k)
    THEN [slots |-> [sm.slots EXCEPT ![k.idx] = [version |-> k.version + 1, value |-> <<>>]],
          free |-> <<k.idx>> \o sm.free]
    ELSE sm

SmKeys(sm) == {Key(i, sm.slots[i].version) : i \in {j \in 1..Len(sm.slots) : sm.slots[j].value # <<>>}}

\* the bound on slots and generations: the insert the guard admits
SmCanInsert(sm) ==
    IF sm.free # <<>>
    THEN sm.slots[Head(sm.free)].version + 1 <= MaxVersion
    ELSE Len(sm.slots) < MaxSlots

\* ------------------------------------------- SecondaryMap (connections)
\* one slot per key index; version 0 is a vacant slot
VacantSlot == [version |-> 0, value |-> <<>>]
EmptySecondaryMap == [i \in 1..MaxSlots |-> VacantSlot]

\* a.wrapping_sub(b) >= 2^31 on u32 versions; the versions of the model stay
\* below MaxVersion, where that is a < b
is_older_version(a, b) == a < b

ScGet(sc, k) ==
    IF k.idx \in DOMAIN sc /\ sc[k.idx].version = k.version THEN sc[k.idx].value ELSE <<>>

ScInsert(sc, k, v) ==
    IF sc[k.idx].version = k.version
    THEN [sc EXCEPT ![k.idx].value = <<v>>]
    ELSE IF sc[k.idx].value # <<>> /\ is_older_version(k.version, sc[k.idx].version)
         THEN sc
         ELSE [sc EXCEPT ![k.idx] = [version |-> k.version, value |-> <<v>>]]

ScRemove(sc, k) ==
    IF k.idx \in DOMAIN sc /\ sc[k.idx].version = k.version
    THEN [sc EXCEPT ![k.idx] = VacantSlot]
    ELSE sc

\* iter: the (key, value) pairs of the occupied slots
ScEntries(sc) ==
    {<<Key(i, sc[i].version), sc[i].value[1]>> : i \in {j \in DOMAIN sc : sc[j].value # <<>>}}

\* -------------------------------------------------------------- records
Node(id) == [id |-> id, inputs |-> <<>>, outputs |-> <<>>]
InputParam(id, typ, value, node) == [id |-> id, typ |-> typ, value |-> value, node |-> node]
OutputParam(id, node, typ) == [id |-> id, node |-> node, typ |-> typ]

\* Graph::new
new == [nodes |-> EmptySlotMap, inputs |-> EmptySlotMap, outputs |-> EmptySlotMap,
        connections |-> EmptySecondaryMap]

\* the result of a call: the graph it leaves, how it ended, what it returned
Result(g, res, ret) == [g |-> g, res |-> res, ret |-> ret]

\* Node::input_ids / Node::output_ids: the identities, in list order
input_ids(node) == [j \in 1..Len(node.inputs) |-> node.inputs[j][2]]

output_ids(node) == [j \in 1..Len(node.outputs) |-> node.outputs[j][2]]

\* iter().find(|(param_name, _)| param_name == name): index of the first match, 0 if none
\* (mutant) the last entry of that name is found
FindName_Last(list, name) ==
    LET hits == {j \in 1..Len(list) : list[j][1] = name} IN
    IF hits = {} THEN 0 ELSE CHOOSE j \in hits : \A h \in hits : j >= h

FindName(list, name) ==
    LET hits == {j \in 1..Len(list) : list[j][1] = name} IN
    IF hits = {} THEN 0 ELSE CHOOSE j \in hits : \A h \in hits : j <= h

\* (mutant) the name is not compared: the first input is found
get_input_IgnoresName(node, name) ==
    IF node.inputs = <<>> THEN <<>> ELSE <<node.inputs[1][2]>>

\* Node::get_input: Ok(id) as <<id>>, Err(NoParameterNamed) as <<>>
get_input(node, name) ==
    IF FindName(node.inputs, name) = 0 THEN <<>> ELSE <<node.inputs[FindName(node.inputs, name)][2]>>

\* (mutant) the searched list is the node's inputs
get_output_SearchesInputs(node, name) ==
    IF FindName(node.inputs, name) = 0 THEN <<>> ELSE <<node.inputs[FindName(node.inputs, name)][2]>>

\* Node::get_output
get_output(node, name) ==
    IF FindName(node.outputs, name) = 0 THEN <<>> ELSE <<node.outputs[FindName(node.outputs, name)][2]>>

\* EguiGraphError::NoParameterNamed(self.id, name.into())
NoParameterNamed(node_id, name) == [err |-> "NoParameterNamed", node |-> node_id, name |-> name]

\* the whole Result of Node::get_input / Node::get_output
get_input_result(node, name) ==
    IF get_input(node, name) = <<>> THEN NoParameterNamed(node.id, name)
    ELSE [ok |-> get_input(node, name)[1]]

get_output_result(node, name) ==
    IF get_output(node, name) = <<>> THEN NoParameterNamed(node.id, name)
    ELSE [ok |-> get_output(node, name)[1]]

\* (mutant) the pair is pushed onto the node's other list
PushInput_IntoOutputs(nodes, node_id, name, id) ==
    [nodes EXCEPT !.slots[node_id.idx].value[1].outputs = Append(@, <<name, id>>)]

\* self.nodes[node_id].inputs.push(..) on a live node
PushInput(nodes, node_id, name, id) ==
    [nodes EXCEPT !.slots[node_id.idx].value[1].inputs = Append(@, <<name, id>>)]

\* (mutant) the new entry goes to the front of the list
PushOutput_Prepend(nodes, node_id, name, id) ==
    [nodes EXCEPT !.slots[node_id.idx].value[1].outputs = <<<<name, id>>>> \o @]

PushOutput(nodes, node_id, name, id) ==
    [nodes EXCEPT !.slots[node_id.idx].value[1].outputs = Append(@, <<name, id>>)]

\* Graph::add_input_param: the port record is inserted first, then the
\* node is indexed (a panic when node_id does not resolve)
add_input_param(g, node_id, name, typ, value) ==
    LET input_id == SmNextKey(g.inputs)
        g1 == [g EXCEPT !.inputs = SmInsert(g.inputs, InputParam(input_id, typ, value, node_id))]
    IN IF SmContains(g1.nodes, node_id)
       THEN Result([g1 EXCEPT !.nodes = PushInput(g1.nodes, node_id, name, input_id)], "Ok", input_id)
       ELSE Result(g1, "panic", NoKey)

\* Graph::add_output_param
add_output_param(g, node_id, name, typ) ==
    LET output_id == SmNextKey(g.outputs)
        g1 == [g EXCEPT !.outputs = SmInsert(g.outputs, OutputParam(output_id, node_id, typ))]
    IN IF SmContains(g1.nodes, node_id)
       THEN Result([g1 EXCEPT !.nodes = PushOutput(g1.nodes, node_id, name, output_id)], "Ok", output_id)
       ELSE Result(g1, "panic", NoKey)

\* the closure given to add_node: a list of port declarations it adds to the new node
Decl(dir, name) == [dir |-> dir, name |-> name, typ |-> TypeOf[name]]

\* one call of the closure
InitCall(g, node_id, d) ==
    IF d.dir = "in" THEN add_input_param(g, node_id, d.name, d.typ, ValueOf[d.typ])
                    ELSE add_output_param(g, node_id, d.name, d.typ)

\* f(self, node_id): the calls in order; a call that panics ends the closure
RECURSIVE RunInit(_, _, _)
RunInit(g, node_id, decls) ==
    IF decls = <<>> THEN g
    ELSE LET r == InitCall(g, node_id, Head(decls))
         IN IF r.res = "Ok" THEN RunInit(r.g, node_id, Tail(decls)) ELSE r.g

\* every call of the closure returned
RECURSIVE InitOk(_, _, _)
InitOk(g, node_id, decls) ==
    IF decls = <<>> THEN TRUE
    ELSE LET r == InitCall(g, node_id, Head(decls))
         IN r.res = "Ok" /\ InitOk(r.g, node_id, Tail(decls))

\* (mutant) the closure runs before the node is in the arena
add_node_InitBeforeInsert(g, f) ==
    LET node_id == SmNextKey(g.nodes)
        g1 == RunInit(g, node_id, f)
    IN IF InitOk(g, node_id, f)
       THEN Result([g1 EXCEPT !.nodes = SmInsert(g1.nodes, Node(node_id))], "Ok", node_id)
       ELSE Result(g1, "panic", NoKey)

\* Graph::add_node: insert the node with empty port lists, run f, return the
\* id; a panic inside f leaves add_node through the panic
add_node(g, f) ==
    LET node_id == SmNextKey(g.nodes)
        g1 == [g EXCEPT !.nodes = SmInsert(g.nodes, Node(node_id))]
    IN IF InitOk(g1, node_id, f)
       THEN Result(RunInit(g1, node_id, f), "Ok", node_id)
       ELSE Result(RunInit(g1, node_id, f), "panic", NoKey)

\* the closure of remove_node's retain on one entry:
\* !(self.outputs[*o].node == node_id || self.inputs[i].node == node_id)
\* "panic" when an indexed port does not resolve, else "keep" or "drop"
\* (mutant) only the output side decides: an entry into one of the node's
\* inputs is kept
RetainVerdict_OutputSideOnly(g, node_id, i, o) ==
    IF ~SmContains(g.outputs, o) THEN "panic"
    ELSE IF SmGet(g.outputs, o)[1].node = node_id THEN "drop"
    ELSE IF ~SmContains(g.inputs, i) THEN "panic"
    ELSE "keep"

RetainVerdict(g, node_id, i, o) ==
    IF ~SmContains(g.outputs, o) THEN "panic"
    ELSE IF SmGet(g.outputs, o)[1].node = node_id THEN "drop"
    ELSE IF ~SmContains(g.inputs, i) THEN "panic"
    ELSE IF SmGet(g.inputs, i)[1].node = node_id THEN "drop"
    ELSE "keep"

\* SecondaryMap::retain with that closure: slots are visited in index order
\* and a panic leaves the slots already visited as they were decided
RECURSIVE RetainNode(_, _, _, _)
RetainNode(g, sc, node_id, j) ==
    IF j > MaxSlots THEN [sc |-> sc, panic |-> FALSE]
    ELSE IF sc[j].value = <<>> THEN RetainNode(g, sc, node_id, j + 1)
    ELSE LET v == RetainVerdict(g, node_id, Key(j, sc[j].version), sc[j].value[1]) IN
         IF v = "panic" THEN [sc |-> sc, panic |-> TRUE]
         ELSE IF v = "drop" THEN RetainNode(g, [sc EXCEPT ![j] = VacantSlot], node_id, j + 1)
         ELSE RetainNode(g, sc, node_id, j + 1)

RECURSIVE RemoveAll(_, _)
RemoveAll(sm, ids) ==
    IF ids = <<>> THEN sm ELSE RemoveAll(SmRemove(sm, Head(ids)), Tail(ids))

\* self[node_id]: the node as <<node>>, <<>> when the index fails fatally
IndexNode(g, node_id) == SmGet(g.nodes, node_id)

\* (mutant) a node that does not resolve is skipped without a failure
remove_node_SilentOnDead(g, node_id) ==
    IF SmGet(g.nodes, node_id) = <<>> THEN Result(g, "Ok", NoKey)
    ELSE LET node == SmGet(g.nodes, node_id)[1]
             r == RetainNode(g, g.connections, node_id, 1)
             g1 == [g EXCEPT !.connections = r.sc]
             g2 == [g1 EXCEPT !.inputs = RemoveAll(g1.inputs, input_ids(node))]
             g3 == [g2 EXCEPT !.outputs = RemoveAll(g2.outputs, output_ids(node))]
         IN IF r.panic THEN Result(g1, "panic", NoKey)
            ELSE Result([g3 EXCEPT !.nodes = SmRemove(g3.nodes, node_id)], "Ok", NoKey)

\* Graph::remove_node
remove_node(g, node_id) ==
    LET r == RetainNode(g, g.connections, node_id, 1)
        g1 == [g EXCEPT !.connections = r.sc]
    IN IF r.panic THEN Result(g1, "panic", NoKey)
       ELSE IF IndexNode(g1, node_id) = <<>> THEN Result(g1, "panic", NoKey)
       ELSE LET node == IndexNode(g1, node_id)[1]
                g2 == [g1 EXCEPT !.inputs = RemoveAll(g1.inputs, input_ids(node))]
                g3 == [g2 EXCEPT !.outputs = RemoveAll(g2.outputs, output_ids(node))]
            IN Result([g3 EXCEPT !.nodes = SmRemove(g3.nodes, node_id)], "Ok", NoKey)

\* (mutant) the entry is read but not taken out of the table
remove_connection_KeepsEntry(g, input_id) ==
    Result(g, "Ok",
           IF ScGet(g.connections, input_id) = <<>> THEN NoKey ELSE ScGet(g.connections, input_id)[1])

\* Graph::remove_connection: returns the OutputId removed, NoKey for None
remove_connection(g, input_id) ==
    Result([g EXCEPT !.connections = ScRemove(g.connections, input_id)], "Ok",
           IF ScGet(g.connections, input_id) = <<>> THEN NoKey ELSE ScGet(g.connections, input_id)[1])

\* Graph::add_connection
add_connection(g, output, input) ==
    Result([g EXCEPT !.connections = ScInsert(g.connections, input, output)], "Ok", NoKey)

\* Graph::iter_nodes, Graph::iter_connections, Graph::connection
iter_nodes(g) == SmKeys(g.nodes)
iter_connections(g) == ScEntries(g.connections)
connection(g, input) == ScGet(g.connections, input)

\* Graph::any_param_type: Ok(typ) as <<typ>>, Err(InvalidParameterId) as <<>>
any_param_type(g, dir, param) ==
    IF dir = "in"
    THEN (IF SmGet(g.inputs, param) = <<>> THEN <<>> ELSE <<SmGet(g.inputs, param)[1].typ>>)
    ELSE (IF SmGet(g.outputs, param) = <<>> THEN <<>> ELSE <<SmGet(g.outputs, param)[1].typ>>)

\* InputParam::change_type
change_type(input, new_data_type, new_value_type) ==
    [input EXCEPT !.typ = new_data_type, !.value = new_value_type]

\* (mutant) the type and value change but the connection stays
change_input_type_KeepsConnection(g, input_id, new_data_type, new_value_type) ==
    IF SmContains(g.inputs, input_id)
    THEN [g EXCEPT !.inputs.slots[input_id.idx].value[1] = change_type(@, new_data_type, new_value_type)]
    ELSE g

\* Graph::change_input_type
change_input_type(g, input_id, new_data_type, new_value_type) ==
    IF SmContains(g.inputs, input_id)
    THEN [g EXCEPT !.inputs.slots[input_id.idx].value[1] = change_type(@, new_data_type, new_value_type),
                   !.connections = ScRemove(g.connections, input_id)]
    ELSE g

\* (mutant) only the first entry that holds the output is dropped
RetainNotOutput_FirstOnly(sc, output_id) ==
    LET hits == {j \in DOMAIN sc : sc[j].value # <<>> /\ sc[j].value[1] = output_id} IN
    [j \in DOMAIN sc |-> IF j \in hits /\ (\A h \in hits : j <= h) THEN VacantSlot ELSE sc[j]]

\* retain(|_, o| *o != output_id)
RetainNotOutput(sc, output_id) ==
    [j \in DOMAIN sc |-> IF sc[j].value # <<>> /\ sc[j].value[1] = output_id THEN VacantSlot ELSE sc[j]]

\* (mutant) every connection is dropped with the retyped output's
change_output_type_ClearsTable(g, output_id, new_data_type) ==
    IF SmContains(g.outputs, output_id)
    THEN [g EXCEPT !.outputs.slots[output_id.idx].value[1].typ = new_data_type,
                   !.connections = EmptySecondaryMap]
    ELSE g

\* Graph::change_output_type
change_output_type(g, output_id, new_data_type) ==
    IF SmContains(g.outputs, output_id)
    THEN [g EXCEPT !.outputs.slots[output_id.idx].value[1].typ = new_data_type,
                   !.connections = RetainNotOutput(g.connections, output_id)]
    ELSE g

\* Graph::change_node_input_type
change_node_input_type(g, node_id, input_name, new_data_type, new_value_type) ==
    IF SmGet(g.nodes, node_id) = <<>> THEN Result(g, "UnknownNode", NoKey)
    ELSE LET input_id == get_input(SmGet(g.nodes, node_id)[1], input_name) IN
         IF input_id = <<>> THEN Result(g, "NoParameterNamed", NoKey)
         ELSE Result(change_input_type(g, input_id[1], new_data_type, new_value_type), "Ok", input_id[1])

\* Graph::change_node_output_type
change_node_output_type(g, node_id, output_name, new_data_type) ==
    IF SmGet(g.nodes, node_id) = <<>> THEN Result(g, "UnknownNode", NoKey)
    ELSE LET output_id == get_output(SmGet(g.nodes, node_id)[1], output_name) IN
         IF output_id = <<>> THEN Result(g, "NoParameterNamed", NoKey)
         ELSE Result(change_output_type(g, output_id[1], new_data_type), "Ok", output_id[1])

\* ------------------------------------------------------ state and steps
VARIABLES
    nodes,        \* Graph.nodes: SlotMap<NodeId, Node>
    inputs,       \* Graph.inputs: SlotMap<InputId, InputParam>
    outputs,      \* Graph.outputs: SlotMap<OutputId, OutputParam>
    connections,  \* Graph.connections: SecondaryMap<InputId, OutputId>
    last,         \* the last call: its arguments, outcome and the table before it
    issued,       \* every identity the arenas have returned so far
    removed,      \* every identity the arenas have removed so far
    steps,        \* calls made so far
    rm            \* the remove_node call in progress: its position and locals

vars == <<nodes, inputs, outputs, connections, last, issued, removed, steps, rm>>

G == [nodes |-> nodes, inputs |-> inputs, outputs |-> outputs, connections |-> connections]

NoCall == [op |-> "new", node |-> NoKey, name |-> "", typ |-> "", value |-> "", input |-> NoKey,
           output |-> NoKey, f |-> <<>>, res |-> "Ok", ret |-> NoKey, pre |-> EmptySecondaryMap]

\* no remove_node under way
RmIdle == [pc |-> "idle", node |-> NoKey, todo |-> <<>>, start |-> new]

Init ==
    /\ nodes = new.nodes
    /\ inputs = new.inputs
    /\ outputs = new.outputs
    /\ connections = new.connections
    /\ last = NoCall
    /\ issued = [n |-> {}, i |-> {}, o |-> {}]
    /\ removed = [n |-> {}, i |-> {}, o |-> {}]
    /\ steps = 0
    /\ rm = RmIdle

\* the keys an arena returned, and those it removed, during a call
Gained(before, after) == SmKeys(after) \ SmKeys(before)
Lost(before, after) == SmKeys(before) \ SmKeys(after)

Commit(r, call) ==
    /\ nodes' = r.g.nodes
    /\ inputs' = r.g.inputs
    /\ outputs' = r.g.outputs
    /\ connections' = r.g.connections
    /\ last' = [call EXCEPT !.res = r.res, !.ret = r.ret, !.pre = connections]
    /\ issued' = [n |-> issued.n \cup Gained(nodes, r.g.nodes),
                  i |-> issued.i \cup Gained(inputs, r.g.inputs),
                  o |-> issued.o \cup Gained(outputs, r.g.outputs)]
    /\ removed' = [n |-> removed.n \cup Lost(nodes, r.g.nodes),
                   i |-> removed.i \cup Lost(inputs, r.g.inputs),
                   o |-> removed.o \cup Lost(outputs, r.g.outputs)]

Apply(result, call) ==
    /\ rm.pc = "idle"
    /\ rm' = rm
    /\ steps < MaxSteps
    /\ steps' = steps + 1
    /\ \E r \in {result} : Commit(r, call)


\* the closures the model draws from: the node templates of the caller
InitClosures ==
    { <<>>,
      <<Decl("in", "x")>>,
      <<Decl("out", "y")>>,
      <<Decl("in", "x"), Decl("out", "y")>>,
      <<Decl("in", "x"), Decl("in", "x")>>,
      <<Decl("out", "y"), Decl("in", "x"), Decl("in", "y")>> }

\* the arenas have room (within the bounds) for what the closure inserts
RECURSIVE InitFits(_, _, _)
InitFits(g, node_id, decls) ==
    IF decls = <<>> THEN TRUE
    ELSE /\ SmCanInsert(IF Head(decls).dir = "in" THEN g.inputs ELSE g.outputs)
         /\ InitFits(RunInit(g, node_id, <<Head(decls)>>), node_id, Tail(decls))

\* the identities a caller holds: those the graph has returned (live or
\* stale by now) and one it never returned (of another graph); for the key
\* of a connection, where index and version decide the slot, any key
ForeignKey == Key(MaxSlots, MaxVersion)
NodeIds == issued.n \cup {ForeignKey}
OutputIds == issued.o \cup {ForeignKey}
InputIds == Keys

AddNode ==
    \E f \in InitClosures :
        /\ SmCanInsert(nodes)
        /\ InitFits(G, SmNextKey(nodes), f)
        /\ Apply(add_node(G, f), [NoCall EXCEPT !.op = "add_node", !.f = f])

AddInputParam ==
    \E node_id \in NodeIds, name \in Names :
      \E typ \in {TypeOf[name]}, value \in {ValueOf[TypeOf[name]]} :
        /\ SmCanInsert(inputs)
        /\ Apply(add_input_param(G, node_id, name, typ, value),
                 [NoCall EXCEPT !.op = "add_input_param", !.node = node_id, !.name = name,
                                !.typ = typ, !.value = value])

AddOutputParam ==
    \E node_id \in NodeIds, name \in Names :
      \E typ \in {TypeOf[name]} :
        /\ SmCanInsert(outputs)
        /\ Apply(add_output_param(G, node_id, name, typ),
                 [NoCall EXCEPT !.op = "add_output_param", !.node = node_id, !.name = name, !.typ = typ])

RemoveNode ==
    \E node_id \in NodeIds :
        Apply(remove_node(G, node_id), [NoCall EXCEPT !.op = "remove_node", !.node = node_id])

RemoveConnection ==
    \E input_id \in InputIds :
        Apply(remove_connection(G, input_id), [NoCall EXCEPT !.op = "remove_connection", !.input = input_id])

AddConnection ==
    \E output \in OutputIds, input \in InputIds :
        Apply(add_connection(G, output, input),
              [NoCall EXCEPT !.op = "add_connection", !.output = output, !.input = input])

ChangeNodeInputType ==
    \E node_id \in NodeIds, name \in Names, typ \in DataTypes :
      \E value \in {ValueOf[typ]} :
        Apply(change_node_input_type(G, node_id, name, typ, value),
              [NoCall EXCEPT !.op = "change_node_input_type", !.node = node_id, !.name = name,
                             !.typ = typ, !.value = value])

ChangeNodeOutputType ==
    \E node_id \in NodeIds, name \in Names, typ \in DataTypes :
        Apply(change_node_output_type(G, node_id, name, typ),
              [NoCall EXCEPT !.op = "change_node_output_type", !.node = node_id, !.name = name, !.typ = typ])

Next ==
    \/ AddNode
    \/ AddInputParam
    \/ AddOutputParam
    \/ RemoveNode
    \/ RemoveConnection
    \/ AddConnection
    \/ ChangeNodeInputType
    \/ ChangeNodeOutputType

Spec == Init /\ [][Next]_vars

\* remove_node statement by statement: the calls of the other operations are
\* taken whole, remove_node is taken one statement (one loop turn) at a time
Progress(g) ==
    /\ nodes' = g.nodes
    /\ inputs' = g.inputs
    /\ outputs' = g.outputs
    /\ connections' = g.connections
    /\ issued' = issued
    /\ removed' = [n |-> removed.n \cup Lost(nodes, g.nodes),
                   i |-> removed.i \cup Lost(inputs, g.inputs),
                   o |-> removed.o \cup Lost(outputs, g.outputs)]
    /\ steps' = steps

\* lines 67-69: retain, then collect the node's input ids
RemoveNodePurge ==
    /\ rm.pc = "idle"
    /\ steps < MaxSteps
    /\ steps' = steps + 1
    /\ \E node_id \in NodeIds :
        LET r == RetainNode(G, connections, node_id, 1)
            g1 == [G EXCEPT !.connections = r.sc]
            call == [NoCall EXCEPT !.op = "remove_node", !.node = node_id]
        IN IF r.panic \/ IndexNode(g1, node_id) = <<>>
           THEN Commit(Result(g1, "panic", NoKey), call) /\ rm' = rm
           ELSE /\ Commit(Result(g1, "pending", NoKey), call)
                /\ rm' = [pc |-> "inputs", node |-> node_id,
                          todo |-> input_ids(IndexNode(g1, node_id)[1]), start |-> G]

\* lines 70-72: one turn of the loop over the collected input ids
RemoveNodeInput ==
    /\ rm.pc = "inputs" /\ rm.todo # <<>>
    /\ Progress([G EXCEPT !.inputs = SmRemove(inputs, Head(rm.todo))])
    /\ rm' = [rm EXCEPT !.todo = Tail(@)]
    /\ last' = last

\* line 73: collect the node's output ids
RemoveNodeCollectOutputs ==
    /\ rm.pc = "inputs" /\ rm.todo = <<>>
    /\ Progress(G)
    /\ rm' = [rm EXCEPT !.pc = "outputs", !.todo = output_ids(IndexNode(G, rm.node)[1])]
    /\ last' = last

\* lines 74-76: one turn of the loop over the collected output ids
RemoveNodeOutput ==
    /\ rm.pc = "outputs" /\ rm.todo # <<>>
    /\ Progress([G EXCEPT !.outputs = SmRemove(outputs, Head(rm.todo))])
    /\ rm' = [rm EXCEPT !.todo = Tail(@)]
    /\ last' = last

\* line 77: the node record goes last and the call returns
RemoveNodeRecord ==
    /\ rm.pc = "outputs" /\ rm.todo = <<>>
    /\ Progress([G EXCEPT !.nodes = SmRemove(nodes, rm.node)])
    /\ rm' = RmIdle
    /\ last' = [last EXCEPT !.res = "Ok"]

NextRemove ==
    \/ AddNode
    \/ AddInputParam
    \/ AddOutputParam
    \/ RemoveConnection
    \/ AddConnection
    \/ ChangeNodeInputType
    \/ ChangeNodeOutputType
    \/ RemoveNodePurge
    \/ RemoveNodeInput
    \/ RemoveNodeCollectOutputs
    \/ RemoveNodeOutput
    \/ RemoveNodeRecord

SpecRemove == Init /\ [][NextRemove]_vars

\* ---------------------------------------------------------------- claims
LiveNode(k) == SmContains(nodes, k)
LiveInput(k) == SmContains(inputs, k)
LiveOutput(k) == SmContains(outputs, k)
NodeOf(k) == SmGet(nodes, k)[1]
SeqRange(q) == {q[j] : j \in 1..Len(q)}
NamesOf(list) == {list[j][1] : j \in 1..Len(list)}
Graph == <<nodes, inputs, outputs, connections>>
PortAdds == {"add_input_param", "add_output_param"}
Inserts == {"add_node", "add_input_param", "add_output_param"}

\* C1: in every reachable state every connection-table entry has a key that
\* resolves to a live input and a value that resolves to a live output.
C1_ConnectionsResolve ==
    \A e \in iter_connections(G) : LiveInput(e[1]) /\ LiveOutput(e[2])

\* C2: after remove_node(n) on a live node n, iter_nodes no longer yields n,
\* no connection has one of n's inputs as key or one of n's outputs as value,
\* and none of n's ports resolves any more.
C2_RemoveNodePurges ==
    [][(last'.op = "remove_node" /\ LiveNode(last'.node)) =>
        LET n == NodeOf(last'.node)
            ins == SeqRange(input_ids(n))
            outs == SeqRange(output_ids(n))
        IN /\ last'.node \notin iter_nodes(G')
           /\ \A e \in iter_connections(G') : e[1] \notin ins /\ e[2] \notin outs
           /\ \A i \in ins : connection(G', i) = <<>> /\ any_param_type(G', "in", i) = <<>>
           /\ \A o \in outs : any_param_type(G', "out", o) = <<>>]_vars

\* C3: add_connection(o1, i) followed by add_connection(o2, i) on a live
\* input i leaves connection(i) = Some(o2) and exactly one entry keyed by i;
\* in every state at most one entry has a given input as key.
C3_AtMostOnePerInput ==
    \A k \in Keys : Cardinality({e \in iter_connections(G) : e[1] = k}) <= 1
C3_Overwrite ==
    /\ []C3_AtMostOnePerInput
    /\ [][(/\ last.op = "add_connection" /\ last'.op = "add_connection"
           /\ last'.input = last.input /\ last'.output # last.output
           /\ LiveInput(last'.input)) =>
          (/\ connection(G', last'.input) = <<last'.output>>
           /\ Cardinality({e \in iter_connections(G') : e[1] = last'.input}) = 1)]_vars

\* C4: a successful change_node_input_type(n, x, new_type, new_value) on the
\* input i named x of the live node n leaves connection(i) = None and sets
\* the input's type to new_type and its value to new_value.
C4_InputTypeChangeSevers ==
    [][(last'.op = "change_node_input_type" /\ last'.res = "Ok") =>
        (/\ LiveNode(last'.node)
         /\ <<last'.name, last'.ret>> \in SeqRange(NodeOf(last'.node).inputs)
         /\ connection(G', last'.ret) = <<>>
         /\ SmGet(inputs', last'.ret) # <<>>
         /\ SmGet(inputs', last'.ret)[1].typ = last'.typ
         /\ SmGet(inputs', last'.ret)[1].value = last'.value)]_vars
\* reached: the retyped input had a connection before the call
C4_Witness ==
    /\ last.op = "change_node_input_type" /\ last.res = "Ok"
    /\ ScGet(last.pre, last.ret) # <<>>
    /\ last.typ # TypeOf[last.name]

\* C5: after a successful change_node_output_type(n, y, new_type) on the
\* output o named y no connection-table entry has value o: every input that
\* o fed has connection(input) = None.
C5_OutputTypeChangeSevers ==
    [][(last'.op = "change_node_output_type" /\ last'.res = "Ok") =>
        (/\ LiveNode(last'.node)
         /\ <<last'.name, last'.ret>> \in SeqRange(NodeOf(last'.node).outputs)
         /\ \A e \in iter_connections(G') : e[2] # last'.ret
         /\ \A k \in Keys : connection(G, k) = <<last'.ret>> => connection(G', k) = <<>>)]_vars
\* reached: the retyped output fed two live inputs before the call
C5_Witness ==
    /\ last.op = "change_node_output_type" /\ last.res = "Ok"
    /\ Cardinality({k \in SmKeys(inputs) : ScGet(last.pre, k) = <<last.ret>>}) >= 2
    /\ \A k \in SmKeys(inputs) : connection(G, k) = <<>>

\* C6: a stale identity never aliases a new object: once a node or port has
\* been removed, a lookup with its identity fails from then on (any_param_type
\* gives InvalidParameterId, change_node_*_type give UnknownNode), connection
\* of a removed input is None at its removal and stays None through every
\* insertion into the arenas, and every identity an insert returns differs
\* from every identity returned before.
C6_StaleFails ==
    /\ \A k \in removed.n : SmGet(nodes, k) = <<>>
    /\ \A k \in removed.i : any_param_type(G, "in", k) = <<>>
    /\ \A k \in removed.o : any_param_type(G, "out", k) = <<>>
C6_StaleNeverAliases ==
    /\ []C6_StaleFails
    /\ [][/\ Gained(nodes, nodes') \cap issued.n = {}
          /\ Gained(inputs, inputs') \cap issued.i = {}
          /\ Gained(outputs, outputs') \cap issued.o = {}
          /\ (last'.op \in {"change_node_input_type", "change_node_output_type"}
              /\ last'.node \in removed.n) => last'.res = "UnknownNode"
          /\ \A k \in removed'.i \ removed.i : connection(G', k) = <<>>
          /\ last'.op \in Inserts =>
                \A k \in removed.i : connection(G, k) = <<>> => connection(G', k) = <<>>]_vars
\* reached: a lookup by name through a removed node's identity, whose slot
\* now holds another node that has an input of that name
C6_Witness ==
    /\ last.op = "change_node_input_type" /\ last.res = "UnknownNode"
    /\ last.node \in removed.n
    /\ \E k \in SmKeys(nodes) : k.idx = last.node.idx /\ get_input(NodeOf(k), last.name) # <<>>
    /\ \E k \in removed.i : \E k2 \in SmKeys(inputs) : k2.idx = k.idx

\* C7: every port identity in a live node's inputs (outputs) list resolves
\* to a live port whose node field is that node's id, every live port is
\* listed by the node its node field names, and no port identity appears
\* more than once across all nodes' lists.
C7_PortOwnership ==
    /\ \A n \in SmKeys(nodes) :
        /\ \A k \in SeqRange(input_ids(NodeOf(n))) : LiveInput(k) /\ SmGet(inputs, k)[1].node = n
        /\ \A k \in SeqRange(output_ids(NodeOf(n))) : LiveOutput(k) /\ SmGet(outputs, k)[1].node = n
    /\ \A k \in SmKeys(inputs) :
        /\ LiveNode(SmGet(inputs, k)[1].node)
        /\ k \in SeqRange(input_ids(NodeOf(SmGet(inputs, k)[1].node)))
    /\ \A k \in SmKeys(outputs) :
        /\ LiveNode(SmGet(outputs, k)[1].node)
        /\ k \in SeqRange(output_ids(NodeOf(SmGet(outputs, k)[1].node)))
    /\ \A k \in Keys :
        /\ Cardinality({<<n, j>> \in SmKeys(nodes) \X (1..MaxSlots) :
                          j <= Len(NodeOf(n).inputs) /\ NodeOf(n).inputs[j][2] = k}) <= 1
        /\ Cardinality({<<n, j>> \in SmKeys(nodes) \X (1..MaxSlots) :
                          j <= Len(NodeOf(n).outputs) /\ NodeOf(n).outputs[j][2] = k}) <= 1

\* C8: add_input_param or add_output_param called with a NodeId that does
\* not resolve to a live node fails and leaves the node arena, the input
\* arena, the output arena and the connection table exactly as they were.
C8_FailedAddChangesNothing ==
    [][(last'.op \in PortAdds /\ ~LiveNode(last'.node)) =>
        (last'.res # "Ok" /\ UNCHANGED Graph)]_vars

\* C9: change_node_input_type and change_node_output_type return UnknownNode
\* when the node id does not resolve, NoParameterNamed when the node is live
\* but has no port of that name in the relevant list; in both cases every
\* port's type and value and the connection table are unchanged.
C9_ChangeTypeErrors ==
    [][/\ (last'.op \in {"change_node_input_type", "change_node_output_type"}
           /\ ~LiveNode(last'.node)) => (last'.res = "UnknownNode" /\ UNCHANGED Graph)
       /\ (last'.op = "change_node_input_type" /\ LiveNode(last'.node)
           /\ last'.name \notin NamesOf(NodeOf(last'.node).inputs))
             => (last'.res = "NoParameterNamed" /\ UNCHANGED Graph)
       /\ (last'.op = "change_node_output_type" /\ LiveNode(last'.node)
           /\ last'.name \notin NamesOf(NodeOf(last'.node).outputs))
             => (last'.res = "NoParameterNamed" /\ UNCHANGED Graph)]_vars
\* reached: the name is missing among the inputs of a live node that has an
\* output of that name and a connected input
C9_Witness ==
    /\ last.op = "change_node_input_type" /\ last.res = "NoParameterNamed"
    /\ LiveNode(last.node)
    /\ last.name \in NamesOf(NodeOf(last.node).outputs)
    /\ \E k \in SeqRange(input_ids(NodeOf(last.node))) : connection(G, k) # <<>>

\* C10: remove_node called with an identity that does not resolve to a live
\* node fails; it never returns normally, so a second remove_node(n) directly
\* after a successful remove_node(n) fails.
C10_RemoveDeadNodeFails ==
    [][(last'.op = "remove_node" /\ ~LiveNode(last'.node)) =>
        last'.res = "panic"]_vars
\* reached: the second of two remove_node calls on the same node
C10_Witness ==
    /\ last.op = "remove_node" /\ last.res = "panic"
    /\ last.node \in removed.n

\* C11 (as claimed): add_input_param(n, name, ..) on a live node followed by
\* get_input(name) on n returns the identity add_input_param just returned;
\* likewise add_output_param and get_output.
C11_RoundTrip ==
    [][/\ (last'.op = "add_input_param" /\ last'.res = "Ok") =>
            get_input_result(SmGet(nodes', last'.node)[1], last'.name) = [ok |-> last'.ret]
       /\ (last'.op = "add_output_param" /\ last'.res = "Ok") =>
            get_output_result(SmGet(nodes', last'.node)[1], last'.name) = [ok |-> last'.ret]]_vars

\* C11 (amended): the round trip holds when the node had no port of that
\* name in the same list before the call; with an earlier port of the name,
\* the lookup returns that earlier port.
C11_RoundTripFreshName ==
    [][/\ (last'.op = "add_input_param" /\ LiveNode(last'.node)) =>
            /\ last'.res = "Ok"
            /\ SmContains(inputs', last'.ret) /\ ~LiveInput(last'.ret)
            /\ IF last'.name \notin NamesOf(NodeOf(last'.node).inputs)
               THEN get_input_result(SmGet(nodes', last'.node)[1], last'.name) = [ok |-> last'.ret]
               ELSE get_input_result(SmGet(nodes', last'.node)[1], last'.name)
                      = get_input_result(NodeOf(last'.node), last'.name)
       /\ (last'.op = "add_output_param" /\ LiveNode(last'.node)) =>
            /\ last'.res = "Ok"
            /\ SmContains(outputs', last'.ret) /\ ~LiveOutput(last'.ret)
            /\ IF last'.name \notin NamesOf(NodeOf(last'.node).outputs)
               THEN get_output_result(SmGet(nodes', last'.node)[1], last'.name) = [ok |-> last'.ret]
               ELSE get_output_result(SmGet(nodes', last'.node)[1], last'.name)
                      = get_output_result(NodeOf(last'.node), last'.name)]_vars
\* reached: an input of a new name added to a node that already has an input
\* of another name and an output of the new name
C11_Witness ==
    /\ last.op = "add_input_param" /\ last.res = "Ok"
    /\ Len(NodeOf(last.node).inputs) >= 2
    /\ Cardinality({j \in 1..Len(NodeOf(last.node).inputs) : NodeOf(last.node).inputs[j][1] = last.name}) = 1
    /\ last.name \in NamesOf(NodeOf(last.node).outputs)

\* C12: on a live node, get_input (get_output) for a name that is not in the
\* node's input (output) list returns NoParameterNamed with that node's id
\* and the name, never an identity; a name present only among the outputs is
\* not found by get_input, and vice versa.  "z" is a name no caller ever adds.
C12_MissingNameFails ==
    \A n \in SmKeys(nodes) : \A name \in Names \cup {"z"} :
        /\ name \notin NamesOf(NodeOf(n).inputs) =>
             get_input_result(NodeOf(n), name) = NoParameterNamed(n, name)
        /\ name \notin NamesOf(NodeOf(n).outputs) =>
             get_output_result(NodeOf(n), name) = NoParameterNamed(n, name)
\* reached: a node of a reused slot whose inputs and outputs have different names
C12_Witness ==
    \E n \in SmKeys(nodes) :
        /\ n.version > 1
        /\ "x" \in NamesOf(NodeOf(n).inputs) /\ "x" \notin NamesOf(NodeOf(n).outputs)
        /\ "y" \in NamesOf(NodeOf(n).outputs) /\ "y" \notin NamesOf(NodeOf(n).inputs)

\* C13: add_node inserts the node first and runs init once with the new
\* identity, so the add_input_param / add_output_param calls of init succeed;
\* it returns that identity, and afterwards iter_nodes yields it and the
\* node's port lists hold exactly the ports init added, in init's order.
IsIn(d) == d.dir = "in"
IsOut(d) == d.dir = "out"
DeclNames(decls) == [j \in 1..Len(decls) |-> decls[j].name]
ListNames(list) == [j \in 1..Len(list) |-> list[j][1]]
C13_AddNodeRunsInit ==
    [][last'.op = "add_node" =>
        /\ last'.res = "Ok"
        /\ last'.ret \notin iter_nodes(G) /\ last'.ret \notin issued.n
        /\ last'.ret \in iter_nodes(G')
        /\ LET node == SmGet(nodes', last'.ret)[1] IN
            /\ node.id = last'.ret
            /\ ListNames(node.inputs) = DeclNames(SelectSeq(last'.f, IsIn))
            /\ ListNames(node.outputs) = DeclNames(SelectSeq(last'.f, IsOut))
            /\ SeqRange(input_ids(node)) = Gained(inputs, inputs')
            /\ SeqRange(output_ids(node)) = Gained(outputs, outputs')
            /\ Cardinality(Gained(inputs, inputs')) = Len(SelectSeq(last'.f, IsIn))
            /\ Cardinality(Gained(outputs, outputs')) = Len(SelectSeq(last'.f, IsOut))
            /\ \A k \in SeqRange(input_ids(node)) : SmGet(inputs', k)[1].node = last'.ret
            /\ \A k \in SeqRange(output_ids(node)) : SmGet(outputs', k)[1].node = last'.ret]_vars
\* reached: a node in a reused slot whose init added three ports
C13_Witness ==
    /\ last.op = "add_node" /\ last.res = "Ok"
    /\ Len(last.f) = 3
    /\ last.ret.version > 1
    /\ Len(NodeOf(last.ret).inputs) = 2 /\ Len(NodeOf(last.ret).outputs) = 1

\* C14: remove_connection(i) always succeeds; it returns Some(o) exactly when
\* connection(i) = Some(o) held before the call and nothing otherwise;
\* afterwards connection(i) = None; and a remove_connection(i) directly after
\* another remove_connection(i) returns nothing and changes no state.
C14_RemoveConnection ==
    [][last'.op = "remove_connection" =>
        /\ last'.res = "Ok"
        /\ \A o \in Keys : (last'.ret = o) <=> (connection(G, last'.input) = <<o>>)
        /\ (last'.ret = NoKey) <=> (connection(G, last'.input) = <<>>)
        /\ connection(G', last'.input) = <<>>
        /\ (last.op = "remove_connection" /\ last.input = last'.input) =>
               (last'.ret = NoKey /\ UNCHANGED Graph)]_vars
\* reached: a removal that returned the output of an existing entry
C14_Witness ==
    /\ last.op = "remove_connection" /\ last.res = "Ok"
    /\ last.ret # NoKey
    /\ ScGet(last.pre, last.input) = <<last.ret>>
    /\ connection(G, last.input) = <<>>

\* C15: add_connection validates neither type nor topology: for every live
\* output o and live input i, add_connection(o, i) records
\* connection(i) = Some(o), whatever the types and owners of o and i.
C15_AddConnectionRecords ==
    [][(last'.op = "add_connection" /\ LiveOutput(last'.output) /\ LiveInput(last'.input)) =>
        /\ last'.res = "Ok"
        /\ connection(G', last'.input) = <<last'.output>>]_vars
\* reachable: a connection between ports of different types, and a self-loop
C15_MismatchReached ==
    \E i \in SmKeys(inputs) : \E o \in SmKeys(outputs) :
        /\ connection(G, i) = <<o>>
        /\ SmGet(inputs, i)[1].typ # SmGet(outputs, o)[1].typ
        /\ SmGet(inputs, i)[1].node = SmGet(outputs, o)[1].node

\* C16: remove_node on a live node never fails fatally, whatever calls came
\* before: the indexed accesses of its retain closure always hit live ports.
C16_RemoveLiveNodeNeverPanics ==
    [][(last'.op = "remove_node" /\ LiveNode(last'.node)) => last'.res = "Ok"]_vars

\* the statements of remove_node taken one at a time end in the graph that
\* remove_node taken whole gives
RemoveStepsAgree ==
    [][(rm.pc = "outputs" /\ rm'.pc = "idle") =>
        /\ remove_node(rm.start, rm.node).res = last'.res
        /\ G' = remove_node(rm.start, rm.node).g]_vars

\* C17 (as stated): remove_node purges the connections, then removes the
\* node's ports, then the node record, and at every intermediate step no
\* connection-table entry refers to a port already removed and no live
\* node's port list refers to a port already removed.
C17_NoDanglingMidRemoval ==
    rm.pc # "idle" =>
        /\ \A e \in iter_connections(G) : e[1] \notin removed.i /\ e[2] \notin removed.o
        /\ \A n \in SmKeys(nodes) :
            /\ \A k \in SeqRange(input_ids(NodeOf(n))) : k \notin removed.i
            /\ \A k \in SeqRange(output_ids(NodeOf(n))) : k \notin removed.o

\* the ports a node lists that still resolve, in list order
RECURSIVE LiveOf(_, _)
LiveOf(sm, ids) ==
    IF ids = <<>> THEN <<>>
    ELSE IF SmContains(sm, Head(ids)) THEN <<Head(ids)>> \o LiveOf(sm, Tail(ids))
    ELSE LiveOf(sm, Tail(ids))

\* C17 (amended): the phases run in that order (while inputs are removed no
\* output is gone yet, while outputs are removed every input is gone, and the
\* node record stays until the end); at every intermediate step every
\* connection-table entry resolves to live ports, none of them a port of the
\* node being removed, and every live node other than the one being removed
\* lists live ports only.
C17_OrderedNoDanglingElsewhere ==
    rm.pc # "idle" =>
        /\ LiveNode(rm.node)
        /\ LET ins == input_ids(NodeOf(rm.node))
               outs == output_ids(NodeOf(rm.node))
           IN /\ rm.pc = "inputs" => (LiveOf(inputs, ins) = rm.todo /\ LiveOf(outputs, outs) = outs)
              /\ rm.pc = "outputs" => (LiveOf(inputs, ins) = <<>> /\ LiveOf(outputs, outs) = rm.todo)
              /\ \A e \in iter_connections(G) :
                    /\ LiveInput(e[1]) /\ LiveOutput(e[2])
                    /\ e[1] \notin removed.i /\ e[2] \notin removed.o
                    /\ e[1] \notin SeqRange(ins) /\ e[2] \notin SeqRange(outs)
        /\ \A n \in SmKeys(nodes) \ {rm.node} :
            /\ \A k \in SeqRange(input_ids(NodeOf(n))) : LiveInput(k)
            /\ \A k \in SeqRange(output_ids(NodeOf(n))) : LiveOutput(k)
\* reached: the last step of a removal that purged a connection and removed
\* an input and an output, with another node and its port still in the graph
C17_Witness ==
    /\ rm.pc = "outputs" /\ rm.todo = <<>>
    /\ input_ids(NodeOf(rm.node)) # <<>> /\ output_ids(NodeOf(rm.node)) # <<>>
    /\ last.pre # connections
    /\ \E n \in SmKeys(nodes) \ {rm.node} : input_ids(NodeOf(n)) # <<>>

\* C18: duplicate port names are legal and resolve to the first match: when a
\* node has two inputs of one name, get_input(name) returns the identity of
\* the one added first (the earlier list entry), and a successful
\* change_node_input_type(n, name, ...) sets the type and value of, and severs
\* the connection of, that first input only: every other input, the later
\* duplicate included, keeps its type, value and connection.
Named(list, name) == {j \in 1..Len(list) : list[j][1] = name}
C18_FirstMatchOnly ==
    [][/\ \A n \in SmKeys(nodes') : \A name \in Names :
            \A j \in Named(SmGet(nodes', n)[1].inputs, name) :
                (\A h \in Named(SmGet(nodes', n)[1].inputs, name) : j <= h) =>
                    get_input_result(SmGet(nodes', n)[1], name) = [ok |-> SmGet(nodes', n)[1].inputs[j][2]]
       /\ (last'.op = "change_node_input_type" /\ last'.res = "Ok") =>
            LET list == NodeOf(last'.node).inputs IN
            /\ \E j \in Named(list, last'.name) :
                /\ \A h \in Named(list, last'.name) : j <= h
                /\ last'.ret = list[j][2]
            /\ SmGet(inputs', last'.ret)[1].typ = last'.typ
            /\ SmGet(inputs', last'.ret)[1].value = last'.value
            /\ connection(G', last'.ret) = <<>>
            /\ \A k \in Keys \ {last'.ret} :
                /\ SmGet(inputs', k) = SmGet(inputs, k)
                /\ connection(G', k) = connection(G, k)]_vars
\* reached: a node with two inputs of one name, both connected before the
\* call; the call retyped the first and the later one kept its connection
C18_Witness ==
    /\ last.op = "change_node_input_type" /\ last.res = "Ok"
    /\ LET list == NodeOf(last.node).inputs IN
        \E j, k \in Named(list, last.name) :
            /\ j < k
            /\ list[j][2] = last.ret
            /\ ScGet(last.pre, last.ret) # <<>>
            /\ connection(G, last.ret) = <<>>
            /\ connection(G, list[k][2]) # <<>>
            /\ SmGet(inputs, list[k][2])[1].typ # SmGet(inputs, last.ret)[1].typ

\* C19: the port lists of a live node are in the order the ports were added
\* and that order is stable: for a node live before and after a call, each
\* list is unchanged, or it has gained exactly one entry at its end, the port
\* an add_input_param / add_output_param on that node has just returned.
C19_ListsAppendOnly ==
    [][\A n \in SmKeys(nodes) \cap SmKeys(nodes') :
        LET before == NodeOf(n)
            after == SmGet(nodes', n)[1]
        IN /\ \/ after.inputs = before.inputs
              \/ /\ last'.op = "add_input_param" /\ last'.node = n /\ last'.res = "Ok"
                 /\ after.inputs = Append(before.inputs, <<last'.name, last'.ret>>)
                 /\ last'.ret \notin SeqRange(input_ids(before))
           /\ \/ after.outputs = before.outputs
              \/ /\ last'.op = "add_output_param" /\ last'.node = n /\ last'.res = "Ok"
                 /\ after.outputs = Append(before.outputs, <<last'.name, last'.ret>>)
                 /\ last'.ret \notin SeqRange(output_ids(before))
           /\ last'.op = "add_input_param" => after.outputs = before.outputs
           /\ last'.op = "add_output_param" => after.inputs = before.inputs
           /\ (last'.op \in PortAdds /\ last'.node = n) =>
                  Len(after.inputs) + Len(after.outputs) = Len(before.inputs) + Len(before.outputs) + 1]_vars
\* reached: an output added to a node that already listed an output and an
\* input, while another live node lists ports too
C19_Witness ==
    /\ last.op = "add_output_param" /\ last.res = "Ok"
    /\ LiveNode(last.node)
    /\ Len(NodeOf(last.node).outputs) >= 2
    /\ NodeOf(last.node).outputs[Len(NodeOf(last.node).outputs)] = <<last.name, last.ret>>
    /\ NodeOf(last.node).inputs # <<>>
    /\ \E n \in SmKeys(nodes) \ {last.node} : NodeOf(n).inputs # <<>>

\* C20: severing is exact. change_node_output_type on output o removes the
\* entries whose value is o and no other; change_node_input_type on input i
\* removes the entry keyed by i and no other; remove_node(n) keeps every
\* entry whose input and output both belong to other nodes; and no port other
\* than the retyped one has its type or value changed by any of the three.
SamePorts(sm1, sm2, except) ==
    \A k \in Keys \ except : SmGet(sm2, k) = <<>> \/ SmGet(sm2, k) = SmGet(sm1, k)
C20_SeveringIsExact ==
    [][/\ (last'.op = "change_node_output_type" /\ last'.res = "Ok") =>
            /\ iter_connections(G') = {e \in iter_connections(G) : e[2] # last'.ret}
            /\ inputs' = inputs /\ nodes' = nodes
            /\ SmKeys(outputs') = SmKeys(outputs)
            /\ SamePorts(outputs, outputs', {last'.ret})
       /\ (last'.op = "change_node_input_type" /\ last'.res = "Ok") =>
            /\ iter_connections(G') = {e \in iter_connections(G) : e[1] # last'.ret}
            /\ outputs' = outputs /\ nodes' = nodes
            /\ SmKeys(inputs') = SmKeys(inputs)
            /\ SamePorts(inputs, inputs', {last'.ret})
       /\ last'.op = "remove_node" =>
            /\ iter_connections(G') \subseteq iter_connections(G)
            /\ \A e \in iter_connections(G) :
                (/\ LiveInput(e[1]) /\ SmGet(inputs, e[1])[1].node # last'.node
                 /\ LiveOutput(e[2]) /\ SmGet(outputs, e[2])[1].node # last'.node)
                    => e \in iter_connections(G')
            /\ SamePorts(inputs, inputs', {})
            /\ SamePorts(outputs, outputs', {})
            /\ \A k \in SmKeys(inputs) : SmGet(inputs, k)[1].node # last'.node => SmContains(inputs', k)
            /\ \A k \in SmKeys(outputs) : SmGet(outputs, k)[1].node # last'.node => SmContains(outputs', k)
       /\ (last'.op \in {"change_node_output_type", "change_node_input_type"} /\ last'.res # "Ok") =>
            UNCHANGED Graph]_vars
\* reached: an output retyped while it fed one input and another entry with
\* another value was in the table; the first is gone, the second there
C20_Witness ==
    /\ last.op = "change_node_output_type" /\ last.res = "Ok"
    /\ \E e \in ScEntries(last.pre) : e[2] = last.ret
    /\ \E e \in iter_connections(G) : e[2] # last.ret /\ e \in ScEntries(last.pre)
    /\ \A e \in iter_connections(G) : e[2] # last.ret

====
